---- MODULE Spec2Model ----
(***************************************************************************)
(* Model of script.py: the MOVPE summary generator.  One run of            *)
(* generate_overview reads the five sheets of an experiment workbook,      *)
(* assembles one record (summary_headers / summary_data), computes the     *)
(* growth rate and merges the record into summary_<N>cols.xlsx in the      *)
(* working directory.                                                      *)
(*                                                                         *)
(* Python values are records [k, s, n, d]: k is the kind ("str", "int",    *)
(* "float", "nan"), s the text of a str, n/d the value of a number.        *)
(* Spreadsheet cells on disk have the kinds "text", "number", "blank".     *)
(* A raised exception is the field exc of an operator's result.            *)
(***************************************************************************)
EXTENDS Integers, Sequences, FiniteSets, TLC

VARIABLES cwd, runs, fc, calc

vars == <<cwd, runs, fc, calc>>

(***************************************************************************)
(* Bounds                                                                  *)
(***************************************************************************)
MaxRuns == 3        \* invocations of the tool in one behaviour
MaxSheetRows == 2   \* data rows of a sheet handed to fill_column

(***************************************************************************)
(* Python values                                                           *)
(***************************************************************************)
PyStr(s) == [k |-> "str", s |-> s, n |-> 0, d |-> 1]
PyInt(n) == [k |-> "int", s |-> "", n |-> n, d |-> 1]
PyFloat(n, d) == [k |-> "float", s |-> "", n |-> n, d |-> d]
NaN == [k |-> "nan", s |-> "", n |-> 0, d |-> 1]
Inf == PyFloat(1, 0)

isnull(v) == v.k = "nan"

RECURSIVE GCD(_, _)
GCD(a, b) == IF b = 0 THEN a ELSE GCD(b, a % b)

\* numpy int64 / int64: a float64; x/0 is inf and 0/0 is nan (no exception)
TrueDivide(a, b) ==
    IF b = 0 THEN (IF a = 0 THEN NaN ELSE Inf)
    ELSE LET g == GCD(a, b) IN PyFloat(a \div g, b \div g)

\* str(v) for the values a sheet cell can hold
str(v) ==
    CASE v.k = "str" -> v.s
      [] v.k = "int" -> ToString(v.n)
      [] v.k = "nan" -> "nan"
      [] v.k = "float" ->
            IF v.d = 0 THEN "inf"
            ELSE ToString(v.n \div v.d) \o "." \o ToString(((v.n % v.d) * 10) \div v.d)

DecimalDigits == {"0", "1", "2", "3", "4", "5", "6", "7", "8", "9"}
\* characters with the Unicode numeric property that are not ASCII digits
OtherNumericChars == {"²", "½"}

Chars(s) == {SubSeq(s, i, i) : i \in 1..Len(s)}

\* str.isnumeric(): at least one character and all of them numeric
isnumeric(s) == Len(s) > 0 /\ Chars(s) \subseteq (DecimalDigits \cup OtherNumericChars)

Digit(c) == CHOOSE n \in 0..9 : ToString(n) = c

RECURSIVE ParseInt(_)
ParseInt(s) ==
    IF Len(s) = 0 THEN 0
    ELSE 10 * ParseInt(SubSeq(s, 1, Len(s) - 1)) + Digit(SubSeq(s, Len(s), Len(s)))

\* pd.to_numeric on a scalar string: parses ASCII digits, ValueError otherwise
to_numeric(s) ==
    IF Len(s) > 0 /\ Chars(s) \subseteq DecimalDigits
    THEN [exc |-> "none", val |-> ParseInt(s)]
    ELSE [exc |-> "ValueError", val |-> 0]

\* q in h
Contains(h, q) == \E i \in 1..(Len(h) - Len(q) + 1) : SubSeq(h, i, i + Len(q) - 1) = q

(***************************************************************************)
(* DataFrames: ordered unique column names, rows aligned to the columns    *)
(***************************************************************************)
DataFrame(columns, rows) == [columns |-> columns, rows |-> rows]

Range(f) == {f[i] : i \in DOMAIN f}

HasColumn(df, header) == header \in Range(df.columns)

IndexOf(seq, x) == CHOOSE i \in DOMAIN seq : seq[i] = x

\* df[header]: the cells of one column, top to bottom
Column(df, header) ==
    LET c == IndexOf(df.columns, header) IN [r \in 1..Len(df.rows) |-> df.rows[r][c]]

(***************************************************************************)
(* fill_column                                                             *)
(***************************************************************************)
\* sheet[header] raises KeyError when the sheet has no such column
fill_column(summary, sheet, header) ==
    IF ~HasColumn(sheet, header)
    THEN [exc |-> "KeyError", summary |-> summary]
    ELSE LET column == Column(sheet, header) IN
         IF Len(column) # 0
         THEN IF \E r \in DOMAIN column : isnull(column[r])
              THEN [exc |-> "none", summary |-> Append(summary, PyStr("empty"))]
              ELSE [exc |-> "none", summary |-> Append(summary, PyStr(str(column[1])))]
         ELSE [exc |-> "none", summary |-> Append(summary, PyStr("empty"))]

\* the loop of generate_overview over the Overview headers
RECURSIVE fill_columns(_, _, _)
fill_columns(summary, sheet, headers) ==
    IF headers = <<>>
    THEN [exc |-> "none", summary |-> summary]
    ELSE LET r == fill_column(summary, sheet, Head(headers)) IN
         IF r.exc # "none" THEN r ELSE fill_columns(r.summary, sheet, Tail(headers))

(***************************************************************************)
(* fill_calculated_cell                                                    *)
(***************************************************************************)
\* dataframe.loc[0, header]
loc(dataframe, header) == dataframe.rows[1][IndexOf(dataframe.columns, header)]

\* dataframe.loc[0, header] = value (a new header enlarges the frame)
set_loc(dataframe, header, value) ==
    IF HasColumn(dataframe, header)
    THEN LET c == IndexOf(dataframe.columns, header) IN
         DataFrame(dataframe.columns,
                   [dataframe.rows EXCEPT ![1] = [dataframe.rows[1] EXCEPT ![c] = value]])
    ELSE DataFrame(Append(dataframe.columns, header),
                   [r \in DOMAIN dataframe.rows |->
                       Append(dataframe.rows[r], IF r = 1 THEN value ELSE NaN)])

fill_calculated_cell(dataframe) ==
    LET thickness == loc(dataframe, "Thickness")
        growth_time == loc(dataframe, "Growth Time")
    IN  IF thickness.k # "str"
        THEN [exc |-> "AttributeError", dataframe |-> dataframe]
        ELSE IF ~isnumeric(thickness.s)
        THEN [exc |-> "none", dataframe |-> dataframe]
        ELSE IF growth_time.k # "str"
        THEN [exc |-> "AttributeError", dataframe |-> dataframe]
        ELSE IF ~isnumeric(growth_time.s)
        THEN [exc |-> "none", dataframe |-> dataframe]
        ELSE LET t == to_numeric(thickness.s)
                 g == to_numeric(growth_time.s)
             IN  IF t.exc # "none" THEN [exc |-> t.exc, dataframe |-> dataframe]
                 ELSE IF g.exc # "none" THEN [exc |-> g.exc, dataframe |-> dataframe]
                 ELSE [exc |-> "none",
                       dataframe |-> set_loc(dataframe, "Growth Rate", TrueDivide(t.val, g.val))]

(***************************************************************************)
(* Spreadsheet files                                                       *)
(***************************************************************************)
Text(s) == [k |-> "text", s |-> s, n |-> 0, d |-> 1]
Number(n, d) == [k |-> "number", s |-> "", n |-> n, d |-> d]
Blank == [k |-> "blank", s |-> "", n |-> 0, d |-> 1]

\* DataFrame.to_excel, one cell: NaN is written blank, inf as the text "inf"
to_excel_cell(v) ==
    CASE v.k = "str" -> Text(v.s)
      [] v.k = "int" -> Number(v.n, 1)
      [] v.k = "nan" -> Blank
      [] v.k = "float" -> IF v.d = 0 THEN Text("inf") ELSE Number(v.n, v.d)

\* pd.read_excel, one cell: whole numbers come back as int
read_excel_cell(c) ==
    CASE c.k = "text" -> PyStr(c.s)
      [] c.k = "blank" -> NaN
      [] c.k = "number" -> IF c.d = 1 THEN PyInt(c.n) ELSE PyFloat(c.n, c.d)

\* the sheet 'Summary' that write_excel_file stores (index=False)
to_excel(dataframe) ==
    [columns |-> dataframe.columns,
     rows |-> [r \in DOMAIN dataframe.rows |->
                 [c \in DOMAIN dataframe.rows[r] |-> to_excel_cell(dataframe.rows[r][c])]]]

\* dtype={'Sample': str}: the non-null cells of column Sample are converted to str
read_excel(sheet) ==
    DataFrame(sheet.columns,
              [r \in DOMAIN sheet.rows |->
                 [c \in DOMAIN sheet.rows[r] |->
                    LET v == read_excel_cell(sheet.rows[r][c]) IN
                    IF sheet.columns[c] = "Sample" /\ ~isnull(v) THEN PyStr(str(v)) ELSE v]])

\* the directory after write_excel_file(file_path, dataframe)
write_excel_file(dir, file_path, dataframe) ==
    [f \in DOMAIN dir \cup {file_path} |->
        IF f = file_path THEN to_excel(dataframe) ELSE dir[f]]

listdir(dir) == DOMAIN dir

(***************************************************************************)
(* generate_overview                                                       *)
(***************************************************************************)
OverviewHeaders ==
    <<"Sample", "Date", "Film", "Substrate", "Substrate T", "Carrier Gas", "Growth Time">>

Quantities == <<"Bubbler Material", "Gas Cylinder Material", "Partial Pressure">>

\* scan_step without the append of the value
scan_step_header_only(acc, growth_run, growthrun_header, quantity) ==
    IF Contains(growthrun_header, quantity)
    THEN [headers |-> Append(acc.headers, growthrun_header), data |-> acc.data]
    ELSE acc

\* the body of the inner loop: one GrowthRun column against one quantity
scan_step(acc, growth_run, growthrun_header, quantity) ==
    IF Contains(growthrun_header, quantity)
    THEN [headers |-> Append(acc.headers, growthrun_header),
          data |-> IF Len(Column(growth_run, growthrun_header)) # 0
                   THEN Append(acc.data, Column(growth_run, growthrun_header)[1])
                   ELSE acc.data]
    ELSE acc

\* the inner loop over the quantities for one GrowthRun column
RECURSIVE scan_quantities(_, _, _, _)
scan_quantities(acc, growth_run, growthrun_header, quantities) ==
    IF quantities = <<>> THEN acc
    ELSE scan_quantities(scan_step(acc, growth_run, growthrun_header, Head(quantities)),
                         growth_run, growthrun_header, Tail(quantities))

\* the outer loop over the GrowthRun columns, in column order
RECURSIVE scan_growth_run(_, _, _)
scan_growth_run(acc, growth_run, columns) ==
    IF columns = <<>> THEN acc
    ELSE scan_growth_run(scan_quantities(acc, growth_run, Head(columns), Quantities),
                         growth_run, Tail(columns))

Min(a, b) == IF a < b THEN a ELSE b

\* {key: value for key, value in zip(summary_headers, summary_data)} as a one-row
\* frame: a key keeps the position of its first pair and the value of its last
summary_dict(summary_headers, summary_data) ==
    LET n == Min(Len(summary_headers), Len(summary_data))
        first == {i \in 1..n : \A j \in 1..(i - 1) : summary_headers[j] # summary_headers[i]}
        RECURSIVE keys(_)
        keys(i) == IF i > n THEN <<>>
                   ELSE IF i \in first THEN <<summary_headers[i]>> \o keys(i + 1)
                   ELSE keys(i + 1)
        last(key) == CHOOSE i \in 1..n :
                        /\ summary_headers[i] = key
                        /\ \A j \in (i + 1)..n : summary_headers[j] # key
        ks == keys(1)
    IN  DataFrame(ks, <<[c \in DOMAIN ks |-> summary_data[last(ks[c])]]>>)

\* pd.concat([existing, new], ignore_index=True): union of the columns, NaN
\* where a frame lacks a column, the rows of existing before those of new
reindex(df, columns) ==
    [r \in DOMAIN df.rows |->
        [c \in DOMAIN columns |->
            IF HasColumn(df, columns[c])
            THEN df.rows[r][IndexOf(df.columns, columns[c])]
            ELSE NaN]]

\* concat with the frames in the opposite order
concat_new_first(existing_dataframe, new_dataframe) ==
    LET columns == existing_dataframe.columns \o
                   SelectSeq(new_dataframe.columns,
                             LAMBDA h : ~HasColumn(existing_dataframe, h))
    IN  DataFrame(columns,
                  reindex(new_dataframe, columns) \o reindex(existing_dataframe, columns))

concat(existing_dataframe, new_dataframe) ==
    LET columns == existing_dataframe.columns \o
                   SelectSeq(new_dataframe.columns,
                             LAMBDA h : ~HasColumn(existing_dataframe, h))
    IN  DataFrame(columns,
                  reindex(existing_dataframe, columns) \o reindex(new_dataframe, columns))

\* filename counting the distinct headers instead of the headers
filename_distinct(summary_headers) ==
    "summary_" \o ToString(Cardinality(Range(summary_headers))) \o "cols.xlsx"

\* f"summary_{len(summary_headers)}cols.xlsx" in the working directory
filename(summary_headers) == "summary_" \o ToString(Len(summary_headers)) \o "cols.xlsx"

\* updated_dataframe without the comparison of the column counts
updated_dataframe_always_concat(dir, summary_headers, new_dataframe) ==
    IF "summary_" \o ToString(Len(summary_headers)) \o "cols.xlsx" \in listdir(dir)
    THEN concat(read_excel(dir["summary_" \o ToString(Len(summary_headers)) \o "cols.xlsx"]),
                new_dataframe)
    ELSE new_dataframe

\* the frame that the merge step hands to write_excel_file
updated_dataframe(dir, summary_headers, new_dataframe) ==
    IF filename(summary_headers) \in listdir(dir)
    THEN LET existing_dataframe == read_excel(dir[filename(summary_headers)])
             num_cols == Len(existing_dataframe.columns)
         IN  IF num_cols = Len(summary_headers)
             THEN concat(existing_dataframe, new_dataframe)
             ELSE new_dataframe
    ELSE new_dataframe

Raised(exc, dir) ==
    [exc |-> exc, summary_headers |-> <<>>, summary_data |-> <<>>,
     new_dataframe |-> DataFrame(<<>>, <<>>), filename |-> "", cwd |-> dir]

\* one run on the workbook wb in the directory dir
generate_overview(wb, dir) ==
    LET ov == fill_columns(<<>>, wb.Overview, OverviewHeaders)
        th == fill_column(ov.summary, wb.AFMReflectanceSEM, "Thickness")
        scan == scan_growth_run(
                    [headers |-> OverviewHeaders \o <<"Thickness", "Growth Rate">>,
                     data |-> Append(th.summary, PyStr("put calc here"))],
                    wb.GrowthRun, wb.GrowthRun.columns)
        ph == fill_column(scan.data, wb.HRXRD, "Phase")
        co == fill_column(ph.summary, wb.SampleCut, "Collaborator")
        summary_headers == scan.headers \o <<"Phase", "Collaborator", "Notes">>
        summary_data == Append(co.summary, PyStr("put notes here"))
        calc_cell == fill_calculated_cell(summary_dict(summary_headers, summary_data))
    IN  IF ov.exc # "none" THEN Raised(ov.exc, dir)
        ELSE IF th.exc # "none" THEN Raised(th.exc, dir)
        ELSE IF ph.exc # "none" THEN Raised(ph.exc, dir)
        ELSE IF co.exc # "none" THEN Raised(co.exc, dir)
        ELSE IF calc_cell.exc # "none" THEN Raised(calc_cell.exc, dir)
        ELSE [exc |-> "none",
              summary_headers |-> summary_headers,
              summary_data |-> summary_data,
              new_dataframe |-> calc_cell.dataframe,
              filename |-> filename(summary_headers),
              cwd |-> write_excel_file(dir, filename(summary_headers),
                          updated_dataframe(dir, summary_headers, calc_cell.dataframe))]

(***************************************************************************)
(* Experiment workbooks given to the tool                                  *)
(***************************************************************************)
Samples == {"A1", "B2"}

Overview(sample) ==
    DataFrame(OverviewHeaders,
              <<<<PyStr(sample), PyStr("2024-01-01"), PyStr("GaN"), PyStr("Al2O3"),
                  PyInt(1000), PyStr("H2"), PyInt(120)>>>>)

GrowthRuns ==
    { DataFrame(<<"Temperature">>, <<<<PyInt(950)>>>>),
      DataFrame(<<"Temperature", "Partial Pressure TMGa">>, <<<<PyInt(950), PyFloat(3, 2)>>>>),
      DataFrame(<<"Bubbler Material TMGa", "Temperature">>, <<<<PyStr("TMGa"), PyInt(950)>>>>),
      DataFrame(<<"Bubbler Material Partial Pressure">>, <<<<PyFloat(3, 2)>>>>),
      DataFrame(<<"Temperature", "Partial Pressure TMGa">>, <<>>),
      DataFrame(<<"Partial Pressure TMGa", "Temperature", "Gas Cylinder Material NH3">>,
                <<<<PyFloat(3, 2), PyInt(950), PyStr("NH3")>>>>) }

Workbook(overview, growth_run, afm, hrxrd, sample_cut) ==
    [Overview |-> overview, GrowthRun |-> growth_run, AFMReflectanceSEM |-> afm,
     HRXRD |-> hrxrd, SampleCut |-> sample_cut]

Thickness(v) == DataFrame(<<"Thickness">>, <<<<v>>>>)
Phase == DataFrame(<<"Phase">>, <<<<PyStr("cubic")>>>>)
Collaborator == DataFrame(<<"Collaborator">>, <<<<PyStr("X")>>>>)
PlainGrowthRun == DataFrame(<<"Temperature">>, <<<<PyInt(950)>>>>)

InputFiles ==
    { Workbook(Overview(s), g, Thickness(PyInt(600)), Phase, Collaborator) :
         s \in Samples, g \in GrowthRuns }
    \cup
    { \* HRXRD sheet without data rows
      Workbook(Overview("A1"), PlainGrowthRun, Thickness(PyInt(600)),
               DataFrame(<<"Phase">>, <<>>), Collaborator),
      \* SampleCut sheet without the column Collaborator
      Workbook(Overview("A1"), PlainGrowthRun, Thickness(PyInt(600)), Phase,
               DataFrame(<<"Cut">>, <<<<PyStr("X")>>>>)),
      \* thickness typed as a superscript numeral
      Workbook(Overview("A1"), PlainGrowthRun, Thickness(PyStr("6²")), Phase, Collaborator) }

(***************************************************************************)
(* Arguments of the calls of fill_column and fill_calculated_cell          *)
(***************************************************************************)
SheetCells ==
    {NaN, PyStr("cubic"), PyStr(""), PyInt(120), PyFloat(3, 2), PyFloat(5, 1)}

RECURSIVE RowsUpTo(_)
RowsUpTo(n) ==
    IF n = 0 THEN {<<>>}
    ELSE RowsUpTo(n - 1) \cup
         {Append(rows, <<v>>) : rows \in {r \in RowsUpTo(n - 1) : Len(r) = n - 1}, v \in SheetCells}

Sheets == {DataFrame(<<"Phase">>, rows) : rows \in RowsUpTo(MaxSheetRows)}

CalcStrings == {"600", "120", "0", "007", "1.5", "empty", "", "²", "6½", "-5", "12a"}

CalcFrame(thickness, growth_time) ==
    DataFrame(<<"Sample", "Growth Time", "Thickness", "Growth Rate", "Notes">>,
              <<<<PyStr("A1"), PyStr(growth_time), PyStr(thickness),
                  PyStr("put calc here"), PyStr("put notes here")>>>>)

(***************************************************************************)
(* State machine                                                           *)
(***************************************************************************)
FcIdle == [pc |-> "idle", summary |-> <<>>, sheet |-> DataFrame(<<>>, <<>>),
           header |-> "", exc |-> "none", result |-> <<>>]
CalcIdle == [pc |-> "idle", dataframe |-> DataFrame(<<>>, <<>>),
             exc |-> "none", result |-> DataFrame(<<>>, <<>>)]

\* an empty working directory, no run yet
Init ==
    /\ cwd = [f \in {} |-> DataFrame(<<>>, <<>>)]
    /\ runs = <<>>
    /\ fc = FcIdle
    /\ calc = CalcIdle

\* launch_tool --input-file wb
GenerateOverview(wb) ==
    /\ Len(runs) < MaxRuns
    /\ LET r == generate_overview(wb, cwd) IN
       /\ cwd' = r.cwd
       /\ runs' = Append(runs, [wb |-> wb, exc |-> r.exc,
                                summary_headers |-> r.summary_headers,
                                summary_data |-> r.summary_data,
                                new_dataframe |-> r.new_dataframe,
                                filename |-> r.filename])
    /\ UNCHANGED <<fc, calc>>

Next == \E wb \in InputFiles : GenerateOverview(wb)

Spec == Init /\ [][Next]_vars

\* fill_column applied to bounded arguments
InitFill ==
    /\ cwd = [f \in {} |-> DataFrame(<<>>, <<>>)]
    /\ runs = <<>>
    /\ calc = CalcIdle
    /\ \E summary \in {<<>>, <<PyStr("A1")>>}, sheet \in Sheets, header \in {"Phase", "Notes"} :
          fc = [pc |-> "call", summary |-> summary, sheet |-> sheet, header |-> header,
                exc |-> "none", result |-> <<>>]

FillColumn ==
    /\ fc.pc = "call"
    /\ LET r == fill_column(fc.summary, fc.sheet, fc.header) IN
       fc' = [fc EXCEPT !.pc = "return", !.exc = r.exc, !.result = r.summary]
    /\ UNCHANGED <<cwd, runs, calc>>

NextFill == FillColumn

SpecFill == InitFill /\ [][NextFill]_vars

\* fill_calculated_cell applied to bounded one-row frames
InitCalc ==
    /\ cwd = [f \in {} |-> DataFrame(<<>>, <<>>)]
    /\ runs = <<>>
    /\ fc = FcIdle
    /\ \E thickness \in CalcStrings, growth_time \in CalcStrings :
          calc = [pc |-> "call", dataframe |-> CalcFrame(thickness, growth_time),
                  exc |-> "none", result |-> DataFrame(<<>>, <<>>)]

FillCalculatedCell ==
    /\ calc.pc = "call"
    /\ LET r == fill_calculated_cell(calc.dataframe) IN
       calc' = [calc EXCEPT !.pc = "return", !.exc = r.exc, !.result = r.dataframe]
    /\ UNCHANGED <<cwd, runs, fc>>

NextCalc == FillCalculatedCell

SpecCalc == InitCalc /\ [][NextCalc]_vars

(***************************************************************************)
(* Properties                                                              *)
(***************************************************************************)
Last(seq) == seq[Len(seq)]

\* a run has just completed without raising
RunCompleted == Len(runs') = Len(runs) + 1 /\ Last(runs').exc = "none"

SummaryName(N) == "summary_" \o ToString(N) \o "cols.xlsx"

CellAt(sheet, r, header) == sheet.rows[r][IndexOf(sheet.columns, header)]

\* row r of the stored sheet holds the one-row frame record, column by column
HoldsRecord(sheet, r, record) ==
    \A c \in DOMAIN record.columns :
        /\ HasColumn(sheet, record.columns[c])
        /\ CellAt(sheet, r, record.columns[c]) = to_excel_cell(record.rows[1][c])

\* C1: a run with N headers that finds summary_<N>cols holding a table of
\* exactly N columns writes all prior rows, unchanged and in their prior
\* order, followed by exactly one new row holding the new record.
C1_AppendOnEqualColumnCount ==
    [][RunCompleted =>
        LET r == Last(runs')
            f == r.filename
        IN  (f \in DOMAIN cwd /\ Len(cwd[f].columns) = Len(r.summary_headers)) =>
               /\ Len(cwd'[f].rows) = Len(cwd[f].rows) + 1
               /\ SubSeq(cwd'[f].columns, 1, Len(cwd[f].columns)) = cwd[f].columns
               /\ \A i \in DOMAIN cwd[f].rows :
                     SubSeq(cwd'[f].rows[i], 1, Len(cwd[f].columns)) = cwd[f].rows[i]
               /\ HoldsRecord(cwd'[f], Len(cwd[f].rows) + 1, r.new_dataframe)]_vars

\* a run has appended its record below the row of an earlier run
C1_Witness ==
    /\ Len(runs) >= 2
    /\ Last(runs).exc = "none"
    /\ Len(cwd[Last(runs).filename].rows) >= 2
    /\ Len(cwd[Last(runs).filename].columns) = Len(Last(runs).summary_headers)

HeaderCounts == 12..15

CompletedWith(N) ==
    SelectSeq(runs, LAMBDA r : r.exc = "none" /\ Len(r.summary_headers) = N)

\* C2: starting from a directory without summary files, after k >= 1 runs
\* whose records have N headers, summary_<N>cols holds exactly k rows, one
\* per run, in the order of the runs.
C2_OneRowPerRun ==
    \A N \in HeaderCounts :
        LET rs == CompletedWith(N)
            f == SummaryName(N)
        IN  Len(rs) >= 1 =>
               /\ f \in DOMAIN cwd
               /\ Len(cwd[f].rows) = Len(rs)
               /\ \A j \in DOMAIN rs : HoldsRecord(cwd[f], j, rs[j].new_dataframe)

\* C3: a run with N headers that finds at its output path a table whose
\* column count differs from N writes a table of exactly one row, the new
\* record; the prior rows are discarded.
C3_ReplaceOnMismatch ==
    [][RunCompleted =>
        LET r == Last(runs')
            f == r.filename
        IN  (f \in DOMAIN cwd /\ Len(cwd[f].columns) # Len(r.summary_headers)) =>
               /\ Len(cwd'[f].rows) = 1
               /\ cwd'[f].columns = r.new_dataframe.columns
               /\ HoldsRecord(cwd'[f], 1, r.new_dataframe)]_vars

\* the last run wrote a file an earlier run had written and left one row in it
C3_Witness ==
    /\ Len(runs) >= 2
    /\ Last(runs).exc = "none"
    /\ \E i \in 1..(Len(runs) - 1) :
          runs[i].exc = "none" /\ runs[i].filename = Last(runs).filename
    /\ Len(cwd[Last(runs).filename].rows) = 1

\* C4: fill_column yields "empty" and does not raise when the named column
\* is absent, has zero rows, or has a null first cell.
C4_EmptySentinelNeverRaises ==
    (/\ fc.pc = "return"
     /\ \/ ~HasColumn(fc.sheet, fc.header)
        \/ Len(fc.sheet.rows) = 0
        \/ isnull(Column(fc.sheet, fc.header)[1]))
    => (fc.exc = "none" /\ fc.result = Append(fc.summary, PyStr("empty")))

\* C5: when the named column has at least one row and a non-null first cell,
\* fill_column yields the string form of the first cell, whatever the later
\* rows hold.
C5_OnlyRowZeroConsulted ==
    (/\ fc.pc = "return"
     /\ HasColumn(fc.sheet, fc.header)
     /\ Len(fc.sheet.rows) >= 1
     /\ ~isnull(Column(fc.sheet, fc.header)[1]))
    => (/\ fc.exc = "none"
        /\ fc.result = Append(fc.summary, PyStr(str(Column(fc.sheet, fc.header)[1]))))

DigitOnly(s) == Len(s) > 0 /\ Chars(s) \subseteq DecimalDigits

OtherFieldsUnchanged(before, after) ==
    /\ after.columns = before.columns
    /\ \A c \in DOMAIN before.columns :
          before.columns[c] # "Growth Rate" => after.rows[1][c] = before.rows[1][c]

\* C6: when Thickness and Growth Time are digit-only strings and Growth Time
\* is not zero, Growth Rate becomes Thickness / Growth Time; when either is
\* not a digit-only string, Growth Rate stays as it was; every other field
\* is unchanged in both cases.
C6_GrowthRate ==
    calc.pc = "return" =>
        LET t == loc(calc.dataframe, "Thickness").s
            g == loc(calc.dataframe, "Growth Time").s
            rate == loc(calc.result, "Growth Rate")
        IN  /\ (DigitOnly(t) /\ DigitOnly(g) /\ ParseInt(g) # 0) =>
                  /\ calc.exc = "none"
                  /\ rate.k = "float"
                  /\ rate.n * ParseInt(g) = rate.d * ParseInt(t)
                  /\ OtherFieldsUnchanged(calc.dataframe, calc.result)
            /\ (~DigitOnly(t) \/ ~DigitOnly(g)) =>
                  /\ calc.exc = "none"
                  /\ rate = loc(calc.dataframe, "Growth Rate")
                  /\ OtherFieldsUnchanged(calc.dataframe, calc.result)

Matches(growthrun_header) ==
    \E q \in Range(Quantities) : Contains(growthrun_header, q)

\* every GrowthRun column matched by the scan has a first row
MatchedColumnsNonEmpty(wb) ==
    (\E c \in DOMAIN wb.GrowthRun.columns : Matches(wb.GrowthRun.columns[c]))
        => Len(wb.GrowthRun.rows) > 0

Extract(sheet, header) == fill_column(<<>>, sheet, header).summary[1]

\* the value that belongs under position j of the header list h
ValueFor(wb, h, j) ==
    IF j <= 7 THEN Extract(wb.Overview, h[j])
    ELSE IF j = 8 THEN Extract(wb.AFMReflectanceSEM, "Thickness")
    ELSE IF j = 9 THEN PyStr("put calc here")
    ELSE IF j = Len(h) - 2 THEN Extract(wb.HRXRD, "Phase")
    ELSE IF j = Len(h) - 1 THEN Extract(wb.SampleCut, "Collaborator")
    ELSE IF j = Len(h) THEN PyStr("put notes here")
    ELSE IF HasColumn(wb.GrowthRun, h[j]) THEN Column(wb.GrowthRun, h[j])[1]
    ELSE NaN

\* C7: for a well-formed workbook whose matched GrowthRun columns are
\* non-empty, the header list and the value list have equal length and each
\* value sits at the index of the header it was extracted for (7 Overview
\* fields, Thickness, Growth Rate, matched GrowthRun columns, Phase,
\* Collaborator, Notes).
C7_HeadersAndValuesAligned ==
    \A i \in DOMAIN runs :
        LET r == runs[i]
            h == r.summary_headers
            d == r.summary_data
        IN  (r.exc = "none" /\ MatchedColumnsNonEmpty(r.wb)) =>
               /\ Len(h) = Len(d)
               /\ SubSeq(h, 1, 9) = OverviewHeaders \o <<"Thickness", "Growth Rate">>
               /\ SubSeq(h, Len(h) - 2, Len(h)) = <<"Phase", "Collaborator", "Notes">>
               /\ \A j \in 10..(Len(h) - 3) :
                     HasColumn(r.wb.GrowthRun, h[j]) /\ Matches(h[j])
               /\ \A j \in DOMAIN h : d[j] = ValueFor(r.wb, h, j)

\* a completed run whose scan matched non-empty GrowthRun columns
C7_Witness ==
    /\ Len(runs) >= 1
    /\ Last(runs).exc = "none"
    /\ Len(Last(runs).wb.GrowthRun.rows) > 0
    /\ Len(Last(runs).summary_headers) > 12

\* C8: a run with N headers writes exactly the file summary_<N>cols and
\* leaves every other file of the directory as it was.
C8_OneOutputFile ==
    [][RunCompleted =>
        LET f == SummaryName(Len(Last(runs').summary_headers))
        IN  /\ f \in DOMAIN cwd'
            /\ DOMAIN cwd' = DOMAIN cwd \cup {f}
            /\ \A g \in DOMAIN cwd : g # f => cwd'[g] = cwd[g]]_vars

\* a completed run in a directory that holds another summary file as well
C8_Witness ==
    /\ Len(runs) >= 2
    /\ Last(runs).exc = "none"
    /\ \E g \in DOMAIN cwd : g # Last(runs).filename

\* C9: each GrowthRun column whose name contains at least one of the three
\* quantities contributes exactly one header, the others none, in GrowthRun
\* column order, and the headers of the record are pairwise distinct.
C9_OneHeaderPerMatchedColumn ==
    \A i \in DOMAIN runs :
        LET h == runs[i].summary_headers IN
        runs[i].exc = "none" =>
           /\ SubSeq(h, 10, Len(h) - 3) = SelectSeq(runs[i].wb.GrowthRun.columns, Matches)
           /\ \A a, b \in DOMAIN h : a # b => h[a] # h[b]

\* C10: every file summary_<N>cols holds a table of exactly N columns, the
\* headers of the record of the last run that wrote it.
C10_FileNameMatchesShape ==
    \A i \in DOMAIN runs :
        (/\ runs[i].exc = "none"
         /\ \A j \in (i + 1)..Len(runs) :
               ~(runs[j].exc = "none" /\ runs[j].filename = runs[i].filename))
        => LET f == SummaryName(Len(runs[i].summary_headers)) IN
           /\ f \in DOMAIN cwd
           /\ Len(cwd[f].columns) = Len(runs[i].summary_headers)
           /\ cwd[f].columns = runs[i].summary_headers

====
